---- MODULE Spec2Model ----
\* Bidirectional streaming interaction pattern of quic-rpc
\* (src/src/pattern/bidi_streaming.rs): the client half RpcClient::bidi and
\* the server half RpcChannel::bidi_streaming, each against a transport that
\* may fail an open, a send or a receive.
EXTENDS Integers, Sequences, FiniteSets, TLC

\* ---------------------------------------------------------------- bounds
\* Most responses a handler's sequence yields in one server call.
MaxResp == 2
\* Most raw items the server's incoming update stream delivers in one call.
MaxRecv == 2
\* Most updates pushed through the client update sinks, over all calls.
MaxUpd == 2
\* Most raw items the client transports deliver, over all calls.
MaxIn == 2

\* ---------------------------------------------------------------- values
\* Typed values of the message M: its updates and its responses.
Updates == {1, 2}
Responses == {1, 2}
\* The typed request of each client call.
Requests == {1, 2}
\* Transport error values (ConnectionErrors::{OpenError, SendError, RecvError}).
OpenErrors == {11, 12}
SendErrors == {21, 22}
RecvErrors == {31, 32}
\* The client calls; each runs bidi() once.
Calls == {"a", "b"}
\* The substreams the connection can hand out, one per open().
Subs == 1..Cardinality(Calls)

\* A wire value of S::Req or S::Res: one tag per concrete message type.
Wire(tag, val) == [tag |-> tag, val |-> val]
\* S::Req values the server may receive after the request: updates of M and
\* a message of another type of the service.
WireReqs == {Wire("Update", u) : u \in Updates} \cup {Wire("Request", 1)}
\* S::Res values the client may receive: responses of M and a message of
\* another type of the service.
WireRess == {Wire("Response", r) : r \in Responses} \cup {Wire("OtherRes", 1)}

\* An item of a transport's incoming stream: Result<wire value, RecvError>.
RawOk(w) == [ok |-> TRUE, tag |-> w.tag, val |-> w.val]
RawErr(e) == [ok |-> FALSE, tag |-> "RecvError", val |-> e]
ServerRawItems == {RawOk(w) : w \in WireReqs} \cup {RawErr(e) : e \in RecvErrors}
ClientRawItems == {RawOk(w) : w \in WireRess} \cup {RawErr(e) : e \in RecvErrors}

\* Result values: kind names the variant, err its payload (0 for none).
Res(kind, err) == [kind |-> kind, err |-> err]
NoResult == Res("None", 0)

\* ---------------------------------------------------------------- state
VARIABLES
    \* server half, one bidi_streaming call
    spc,          \* position of the call: start, next, send, ok, failed
    handlerCalls, \* times the handler f was invoked
    produced,     \* typed responses the handler's sequence has yielded
    handlerEnded, \* the handler's sequence returned None
    hwait,        \* the handler is suspended in updates.next()
    sendLog,      \* wire responses handed to send.send, in order
    acked,        \* sends the transport accepted
    sendErr,      \* the error the transport returned to a send (0 for none)
    recvLog,      \* raw items the update stream has read from recv
    updEnded,     \* recv returned None
    updates,      \* typed updates the handler has seen
    error_send,   \* the update stream still holds its one-shot sender
    read_error,   \* the value of the one-shot error signal
    fired,        \* times the error signal was resolved
    result,       \* what the call returned
    selfUpdate,   \* the message type declares the request type as its Update
    \* client half, per call
    cpc,          \* start, opened, ready, failed
    creq,         \* the typed request msg
    terr,         \* the error the transport returned to open/send, if any
    cresult,      \* what bidi returned
    out,          \* wire values handed to the substream's send, in order
    hasSink,      \* bidi returned an UpdateSink
    updSent,      \* typed updates the caller pushed into the sink, in order
    cin,          \* raw items the substream's recv has yielded
    cinEnded,     \* the substream's recv returned None
    resp,         \* elements the returned response sequence has yielded
    respEnded,    \* the returned response sequence has yielded None
    \* the connection the client calls open substreams on
    nextSub,      \* substreams opened so far
    substream,    \* the substream each call holds (0 for none)
    chan,         \* per substream, the wire values sent on it, in order
    chanIn        \* per substream, the raw items its recv has yielded

svars == <<spc, handlerCalls, produced, handlerEnded, hwait, sendLog, acked,
           sendErr, recvLog, updEnded, updates, error_send, read_error, fired,
           result, selfUpdate>>
tvars == <<nextSub, substream, chan, chanIn>>
cvars == <<cpc, creq, terr, cresult, out, hasSink, updSent, cin, cinEnded, resp,
           respEnded, tvars>>
vars == <<svars, cvars>>

\* ---------------------------------------------------------------- conversions
\* response.into(): M::Response -> S::Res.
ResponseInto(r) == Wire("Response", r)

\* The variant of S::Req that carries M::Update: the request's own variant
\* when M declares itself as its update type.
UpdateTag == IF selfUpdate THEN "Request" ELSE "Update"

\* M::Update::try_from(S::Req): succeeds on the update type's variant only.
UpdateTryFrom_AnyTag(w) == [ok |-> TRUE, val |-> w.val]
UpdateTryFrom(w) ==
    IF w.tag = UpdateTag THEN [ok |-> TRUE, val |-> w.val]
                         ELSE [ok |-> FALSE, val |-> 0]

\* ---------------------------------------------------------------- server half
ServerInit ==
    /\ spc = "start"
    /\ handlerCalls = 0
    /\ produced = <<>>
    /\ handlerEnded = FALSE
    /\ hwait = FALSE
    /\ sendLog = <<>>
    /\ acked = 0
    /\ sendErr = 0
    /\ recvLog = <<>>
    /\ updEnded = FALSE
    /\ updates = <<>>
    /\ error_send = FALSE
    /\ read_error = NoResult
    /\ fired = 0
    /\ result = NoResult

\* race2: neither branch has produced a value yet; once one has, the other
\* is dropped and takes no further step.
Race2Pending == result = NoResult

\* UpdateStream::new(recv) and f(target, req, updates).
ServerStart ==
    /\ spc = "start"
    /\ spc' = "next"
    /\ error_send' = TRUE
    /\ handlerCalls' = handlerCalls + 1
    /\ UNCHANGED <<produced, handlerEnded, hwait, sendLog, acked, sendErr,
                   recvLog, updEnded, updates, read_error, fired, result,
                   selfUpdate>>
    /\ UNCHANGED cvars

\* The one-shot sender is taken and the signal resolved with e.
SignalError_Overwrite(e) ==
    /\ read_error' = e
    /\ fired' = fired + 1
    /\ error_send' = FALSE
SignalError(e) ==
    IF error_send
    THEN /\ read_error' = e
         /\ fired' = fired + 1
         /\ error_send' = FALSE
    ELSE UNCHANGED <<read_error, fired, error_send>>

\* The handler, polled by responses.next(), awaits updates.next() and is
\* suspended until the update stream yields.
HandlerSuspend ==
    /\ spc = "next" /\ Race2Pending /\ ~handlerEnded /\ ~updEnded
    /\ ~hwait
    /\ hwait' = TRUE
    /\ UNCHANGED <<spc, handlerCalls, produced, handlerEnded, sendLog, acked,
                   sendErr, recvLog, updEnded, updates, error_send,
                   read_error, fired, result, selfUpdate>>
    /\ UNCHANGED cvars

\* The handler pulls the next update: the update stream reads one raw item x
\* from recv. A typed update resumes a suspended handler; on a failure the
\* stream stays pending.
UpdateStreamItem(x) ==
    /\ spc = "next" /\ Race2Pending /\ ~handlerEnded /\ ~updEnded
    /\ Len(recvLog) < MaxRecv
    /\ recvLog' = Append(recvLog, x)
    /\ IF x.ok
       THEN IF UpdateTryFrom(x).ok
            THEN /\ updates' = Append(updates, UpdateTryFrom(x).val)
                 /\ hwait' = FALSE
                 /\ UNCHANGED <<read_error, fired, error_send>>
            ELSE /\ SignalError(Res("UnexpectedUpdateMessage", 0))
                 /\ UNCHANGED <<updates, hwait>>
       ELSE /\ SignalError(Res("RecvError", x.val))
            /\ UNCHANGED <<updates, hwait>>
    /\ UNCHANGED <<spc, handlerCalls, produced, handlerEnded, sendLog, acked,
                   sendErr, updEnded, result, selfUpdate>>
    /\ UNCHANGED cvars

\* The handler pulls the next update and recv has ended: the typed update
\* sequence ends (resuming a suspended handler), the signal is left alone.
UpdateStreamEnd ==
    /\ spc = "next" /\ Race2Pending /\ ~handlerEnded /\ ~updEnded
    /\ updEnded' = TRUE
    /\ hwait' = FALSE
    /\ UNCHANGED <<spc, handlerCalls, produced, handlerEnded, sendLog, acked,
                   sendErr, recvLog, updates, error_send, read_error, fired,
                   result, selfUpdate>>
    /\ UNCHANGED cvars

\* responses.next() yields Some(r): convert it and hand it to send.send.
SendLoopYield_NotRaced(r) ==
    /\ spc = "next" /\ ~handlerEnded /\ ~hwait
    /\ Len(produced) < MaxResp
    /\ produced' = Append(produced, r)
    /\ sendLog' = Append(sendLog, ResponseInto(r))
    /\ spc' = "send"
    /\ UNCHANGED <<handlerCalls, handlerEnded, hwait, acked, sendErr,
                   recvLog, updEnded, updates, error_send, read_error, fired,
                   result, selfUpdate>>
    /\ UNCHANGED cvars
SendLoopYield_SkipSend(r) ==
    /\ spc = "next" /\ Race2Pending /\ ~handlerEnded /\ ~hwait
    /\ Len(produced) < MaxResp
    /\ produced' = Append(produced, r)
    /\ UNCHANGED <<spc, handlerCalls, handlerEnded, hwait, sendLog, acked,
                   sendErr, recvLog, updEnded, updates, error_send,
                   read_error, fired, result, selfUpdate>>
    /\ UNCHANGED cvars
SendLoopYield_SendTwice(r) ==
    /\ spc = "next" /\ Race2Pending /\ ~handlerEnded /\ ~hwait
    /\ Len(produced) < MaxResp
    /\ produced' = Append(produced, r)
    /\ sendLog' = sendLog \o <<ResponseInto(r), ResponseInto(r)>>
    /\ spc' = "send"
    /\ UNCHANGED <<handlerCalls, handlerEnded, hwait, acked, sendErr,
                   recvLog, updEnded, updates, error_send, read_error, fired,
                   result, selfUpdate>>
    /\ UNCHANGED cvars
SendLoopYield(r) ==
    /\ spc = "next" /\ Race2Pending /\ ~handlerEnded /\ ~hwait
    /\ Len(produced) < MaxResp
    /\ produced' = Append(produced, r)
    /\ sendLog' = Append(sendLog, ResponseInto(r))
    /\ spc' = "send"
    /\ UNCHANGED <<handlerCalls, handlerEnded, hwait, acked, sendErr,
                   recvLog, updEnded, updates, error_send, read_error, fired,
                   result, selfUpdate>>
    /\ UNCHANGED cvars

\* send.send(response).await returned Ok: back to responses.next().
SendOk ==
    /\ spc = "send" /\ Race2Pending
    /\ acked' = acked + 1
    /\ spc' = "next"
    /\ UNCHANGED <<handlerCalls, produced, handlerEnded, hwait, sendLog,
                   sendErr, recvLog, updEnded, updates, error_send,
                   read_error, fired, result, selfUpdate>>
    /\ UNCHANGED cvars

\* send.send(response).await returned Err(e): map_err(SendError)? leaves the
\* loop, and the send branch wins the race.
SendFail_Swallow(e) ==
    /\ spc = "send" /\ Race2Pending
    /\ sendErr' = e
    /\ spc' = "next"
    /\ UNCHANGED <<handlerCalls, produced, handlerEnded, hwait, sendLog,
                   acked, recvLog, updEnded, updates, error_send, read_error,
                   fired, result, selfUpdate>>
    /\ UNCHANGED cvars
SendFail(e) ==
    /\ spc = "send" /\ Race2Pending
    /\ sendErr' = e
    /\ spc' = "failed"
    /\ result' = Res("SendError", e)
    /\ UNCHANGED <<handlerCalls, produced, handlerEnded, hwait, sendLog,
                   acked, recvLog, updEnded, updates, error_send, read_error,
                   fired, selfUpdate>>
    /\ UNCHANGED cvars

\* responses.next() yields None: the loop ends with Ok(()), and the send
\* branch wins the race.
SendLoopEnd ==
    /\ spc = "next" /\ Race2Pending /\ ~handlerEnded /\ ~hwait
    /\ handlerEnded' = TRUE
    /\ spc' = "ok"
    /\ result' = Res("Ok", 0)
    /\ UNCHANGED <<handlerCalls, produced, hwait, sendLog, acked, sendErr,
                   recvLog, updEnded, updates, error_send, read_error, fired,
                   selfUpdate>>
    /\ UNCHANGED cvars

\* read_error.map(Err): the signal has resolved and the error-watch branch
\* wins the race.
ErrorWatch_FiresOnEnd ==
    /\ Race2Pending /\ spc \in {"next", "send"}
    /\ read_error # NoResult \/ updEnded
    /\ result' = IF read_error # NoResult THEN read_error
                 ELSE Res("RecvError", 0)
    /\ UNCHANGED <<spc, handlerCalls, produced, handlerEnded, hwait, sendLog,
                   acked, sendErr, recvLog, updEnded, updates, error_send,
                   read_error, fired, selfUpdate>>
    /\ UNCHANGED cvars
ErrorWatch_NotWhileSuspended ==
    /\ Race2Pending /\ spc \in {"next", "send"} /\ ~hwait
    /\ read_error # NoResult
    /\ result' = read_error
    /\ UNCHANGED <<spc, handlerCalls, produced, handlerEnded, hwait, sendLog,
                   acked, sendErr, recvLog, updEnded, updates, error_send,
                   read_error, fired, selfUpdate>>
    /\ UNCHANGED cvars
ErrorWatch_NoRaceGuard ==
    /\ spc \in {"next", "send", "ok", "failed"}
    /\ read_error # NoResult /\ result # read_error
    /\ result' = read_error
    /\ UNCHANGED <<spc, handlerCalls, produced, handlerEnded, hwait, sendLog,
                   acked, sendErr, recvLog, updEnded, updates, error_send,
                   read_error, fired, selfUpdate>>
    /\ UNCHANGED cvars
ErrorWatch ==
    /\ Race2Pending /\ spc \in {"next", "send"}
    /\ read_error # NoResult
    /\ result' = read_error
    /\ UNCHANGED <<spc, handlerCalls, produced, handlerEnded, hwait, sendLog,
                   acked, sendErr, recvLog, updEnded, updates, error_send,
                   read_error, fired, selfUpdate>>
    /\ UNCHANGED cvars

\* The steps of the handler's response sequence as the send loop sees them.
HandlerStep == (\E r \in Responses : SendLoopYield(r)) \/ SendLoopEnd
\* The completion of a send in flight.
SendDone == SendOk \/ (\E e \in SendErrors : SendFail(e))

ServerNext ==
    \/ ServerStart
    \/ HandlerSuspend
    \/ \E x \in ServerRawItems : UpdateStreamItem(x)
    \/ UpdateStreamEnd
    \/ \E r \in Responses : SendLoopYield(r)
    \/ SendOk
    \/ \E e \in SendErrors : SendFail(e)
    \/ SendLoopEnd
    \/ ErrorWatch

\* ---------------------------------------------------------------- client half
ClientIdle ==
    /\ cpc = [c \in Calls |-> "start"]
    /\ terr = [c \in Calls |-> NoResult]
    /\ cresult = [c \in Calls |-> NoResult]
    /\ out = [c \in Calls |-> <<>>]
    /\ hasSink = [c \in Calls |-> FALSE]
    /\ updSent = [c \in Calls |-> <<>>]
    /\ cin = [c \in Calls |-> <<>>]
    /\ cinEnded = [c \in Calls |-> FALSE]
    /\ resp = [c \in Calls |-> <<>>]
    /\ respEnded = [c \in Calls |-> FALSE]
    /\ nextSub = 0
    /\ substream = [c \in Calls |-> 0]
    /\ chan = [s \in Subs |-> <<>>]
    /\ chanIn = [s \in Subs |-> <<>>]

ClientInit ==
    /\ ClientIdle
    /\ creq \in {f \in [Calls -> Requests] : f["a"] = 1}

\* msg.into(): M -> S::Req.
RequestInto(m) == Wire("Request", m)
\* update.into(): M::Update -> S::Req.
UpdateInto(u) == Wire(UpdateTag, u)
\* M::Response::try_from(S::Res): succeeds on the response variant only.
ResponseTryFrom(w) ==
    IF w.tag = "Response" THEN [ok |-> TRUE, val |-> w.val]
                          ELSE [ok |-> FALSE, val |-> 0]

RECURSIVE SumLen(_, _)
SumLen(f, S) ==
    IF S = {} THEN 0
    ELSE LET c == CHOOSE d \in S : TRUE
         IN  Len(f[c]) + SumLen(f, S \ {c})

\* self.source.open().await returned Ok((send, recv)): the connection hands
\* out a new substream.
ClientOpenOk_Shared(c) ==
    /\ cpc[c] = "start"
    /\ cpc' = [cpc EXCEPT ![c] = "opened"]
    /\ nextSub' = 1
    /\ substream' = [substream EXCEPT ![c] = 1]
    /\ UNCHANGED <<creq, terr, cresult, out, hasSink, updSent, cin, cinEnded,
                   resp, respEnded, chan, chanIn>>
    /\ UNCHANGED svars
ClientOpenOk_EarlySink(c) ==
    /\ cpc[c] = "start"
    /\ cpc' = [cpc EXCEPT ![c] = "opened"]
    /\ nextSub' = nextSub + 1
    /\ substream' = [substream EXCEPT ![c] = nextSub + 1]
    /\ hasSink' = [hasSink EXCEPT ![c] = TRUE]
    /\ UNCHANGED <<creq, terr, cresult, out, updSent, cin, cinEnded,
                   resp, respEnded, chan, chanIn>>
    /\ UNCHANGED svars
ClientOpenOk(c) ==
    /\ cpc[c] = "start"
    /\ cpc' = [cpc EXCEPT ![c] = "opened"]
    /\ nextSub' = nextSub + 1
    /\ substream' = [substream EXCEPT ![c] = nextSub + 1]
    /\ UNCHANGED <<creq, terr, cresult, out, hasSink, updSent, cin, cinEnded,
                   resp, respEnded, chan, chanIn>>
    /\ UNCHANGED svars

\* self.source.open().await returned Err(e): map_err(Error::Open)? returns.
ClientOpenFail_Continue(c, e) ==
    /\ cpc[c] = "start"
    /\ terr' = [terr EXCEPT ![c] = Res("open", e)]
    /\ cpc' = [cpc EXCEPT ![c] = "opened"]
    /\ nextSub' = nextSub + 1
    /\ substream' = [substream EXCEPT ![c] = nextSub + 1]
    /\ UNCHANGED <<creq, cresult, out, hasSink, updSent, cin, cinEnded, resp,
                   respEnded, chan, chanIn>>
    /\ UNCHANGED svars
ClientOpenFail(c, e) ==
    /\ cpc[c] = "start"
    /\ terr' = [terr EXCEPT ![c] = Res("open", e)]
    /\ cresult' = [cresult EXCEPT ![c] = Res("Open", e)]
    /\ cpc' = [cpc EXCEPT ![c] = "failed"]
    /\ UNCHANGED <<creq, out, hasSink, updSent, cin, cinEnded, resp, respEnded,
                   tvars>>
    /\ UNCHANGED svars

\* The outgoing half of call c's substream is handed the wire value w.
SubstreamSend(c, w) ==
    /\ chan' = [chan EXCEPT ![substream[c]] = Append(@, w)]
    /\ UNCHANGED <<nextSub, substream, chanIn>>

\* send.send(msg).await returned Ok: the sink and the response sequence are
\* built and returned.
ClientSendRequestOk(c) ==
    /\ cpc[c] = "opened"
    /\ out' = [out EXCEPT ![c] = Append(@, RequestInto(creq[c]))]
    /\ SubstreamSend(c, RequestInto(creq[c]))
    /\ hasSink' = [hasSink EXCEPT ![c] = TRUE]
    /\ cresult' = [cresult EXCEPT ![c] = Res("Ok", 0)]
    /\ cpc' = [cpc EXCEPT ![c] = "ready"]
    /\ UNCHANGED <<creq, terr, updSent, cin, cinEnded, resp, respEnded>>
    /\ UNCHANGED svars

\* send.send(msg).await returned Err(e): map_err(Error::Send)? returns.
ClientSendRequestFail_Ignore(c, e) ==
    /\ cpc[c] = "opened"
    /\ out' = [out EXCEPT ![c] = Append(@, RequestInto(creq[c]))]
    /\ SubstreamSend(c, RequestInto(creq[c]))
    /\ terr' = [terr EXCEPT ![c] = Res("send", e)]
    /\ hasSink' = [hasSink EXCEPT ![c] = TRUE]
    /\ cresult' = [cresult EXCEPT ![c] = Res("Ok", 0)]
    /\ cpc' = [cpc EXCEPT ![c] = "ready"]
    /\ UNCHANGED <<creq, updSent, cin, cinEnded, resp, respEnded>>
    /\ UNCHANGED svars
ClientSendRequestFail(c, e) ==
    /\ cpc[c] = "opened"
    /\ out' = [out EXCEPT ![c] = Append(@, RequestInto(creq[c]))]
    /\ SubstreamSend(c, RequestInto(creq[c]))
    /\ terr' = [terr EXCEPT ![c] = Res("send", e)]
    /\ cresult' = [cresult EXCEPT ![c] = Res("Send", e)]
    /\ cpc' = [cpc EXCEPT ![c] = "failed"]
    /\ UNCHANGED <<creq, hasSink, updSent, cin, cinEnded, resp, respEnded>>
    /\ UNCHANGED svars

\* UpdateSink::send(u): convert the update and send it on the substream.
UpdateSinkSend_Front(c, u) ==
    /\ hasSink[c]
    /\ SumLen(updSent, Calls) < MaxUpd
    /\ updSent' = [updSent EXCEPT ![c] = Append(@, u)]
    /\ out' = [out EXCEPT ![c] = <<Head(@), UpdateInto(u)>> \o Tail(@)]
    /\ SubstreamSend(c, UpdateInto(u))
    /\ UNCHANGED <<cpc, creq, terr, cresult, hasSink, cin, cinEnded, resp,
                   respEnded>>
    /\ UNCHANGED svars
UpdateSinkSend(c, u) ==
    /\ hasSink[c]
    /\ SumLen(updSent, Calls) < MaxUpd
    /\ updSent' = [updSent EXCEPT ![c] = Append(@, u)]
    /\ out' = [out EXCEPT ![c] = Append(@, UpdateInto(u))]
    /\ SubstreamSend(c, UpdateInto(u))
    /\ UNCHANGED <<cpc, creq, terr, cresult, hasSink, cin, cinEnded, resp,
                   respEnded>>
    /\ UNCHANGED svars

\* The closure mapped over recv: one element of the response sequence for
\* one raw item.
MapResponse_AllRecvError(x) ==
    IF x.ok /\ ResponseTryFrom(x).ok
    THEN Res("Ok", ResponseTryFrom(x).val)
    ELSE Res("RecvError", IF x.ok THEN 0 ELSE x.val)
MapResponse(x) ==
    IF x.ok
    THEN IF ResponseTryFrom(x).ok
         THEN Res("Ok", ResponseTryFrom(x).val)
         ELSE Res("DowncastError", 0)
    ELSE Res("RecvError", x.val)

\* The caller polls the response sequence and recv yields the raw item x.
ResponseNext_StopOnError(c, x) ==
    /\ cpc[c] = "ready" /\ ~cinEnded[c] /\ ~respEnded[c]
    /\ SumLen(cin, Calls) < MaxIn
    /\ cin' = [cin EXCEPT ![c] = Append(@, x)]
    /\ chanIn' = [chanIn EXCEPT ![substream[c]] = Append(@, x)]
    /\ resp' = [resp EXCEPT ![c] = Append(@, MapResponse(x))]
    /\ respEnded' = [respEnded EXCEPT ![c] = MapResponse(x).kind # "Ok"]
    /\ UNCHANGED <<cpc, creq, terr, cresult, out, hasSink, updSent, cinEnded,
                   nextSub, substream, chan>>
    /\ UNCHANGED svars
ResponseNext(c, x) ==
    /\ cpc[c] = "ready" /\ ~cinEnded[c] /\ ~respEnded[c]
    /\ SumLen(cin, Calls) < MaxIn
    /\ cin' = [cin EXCEPT ![c] = Append(@, x)]
    /\ chanIn' = [chanIn EXCEPT ![substream[c]] = Append(@, x)]
    /\ resp' = [resp EXCEPT ![c] = Append(@, MapResponse(x))]
    /\ UNCHANGED <<cpc, creq, terr, cresult, out, hasSink, updSent, cinEnded,
                   respEnded, nextSub, substream, chan>>
    /\ UNCHANGED svars

\* The caller polls the response sequence and recv has ended: so has the
\* sequence.
ResponseEnd_ErrorOnClose(c) ==
    /\ cpc[c] = "ready" /\ ~cinEnded[c] /\ ~respEnded[c]
    /\ cinEnded' = [cinEnded EXCEPT ![c] = TRUE]
    /\ resp' = [resp EXCEPT ![c] = Append(@, Res("RecvError", 0))]
    /\ respEnded' = [respEnded EXCEPT ![c] = TRUE]
    /\ UNCHANGED <<cpc, creq, terr, cresult, out, hasSink, updSent, cin, tvars>>
    /\ UNCHANGED svars
ResponseEnd(c) ==
    /\ cpc[c] = "ready" /\ ~cinEnded[c] /\ ~respEnded[c]
    /\ cinEnded' = [cinEnded EXCEPT ![c] = TRUE]
    /\ respEnded' = [respEnded EXCEPT ![c] = TRUE]
    /\ UNCHANGED <<cpc, creq, terr, cresult, out, hasSink, updSent, cin, resp,
                   tvars>>
    /\ UNCHANGED svars

ClientNext ==
    \E c \in Calls :
        \/ ClientOpenOk(c)
        \/ \E e \in OpenErrors : ClientOpenFail(c, e)
        \/ ClientSendRequestOk(c)
        \/ \E e \in SendErrors : ClientSendRequestFail(c, e)
        \/ \E u \in Updates : UpdateSinkSend(c, u)
        \/ \E x \in ClientRawItems : ResponseNext(c, x)
        \/ ResponseEnd(c)

\* ---------------------------------------------------------------- specifications
\* One server call; the client half stays idle.
InitServer ==
    ServerInit /\ selfUpdate = FALSE /\ ClientIdle /\ creq = [c \in Calls |-> 1]
SpecServer == InitServer /\ [][ServerNext]_vars

\* One server call under a scheduler that polls a woken task: the call is
\* started, a send in flight completes, the handler's sequence yields or ends
\* unless it is suspended on the update sequence, and a resolved error signal
\* is observed. Nothing obliges the client to send or end its updates.
SpecServerFair ==
    /\ InitServer /\ [][ServerNext]_vars
    /\ WF_vars(ServerStart)
    /\ WF_vars(SendDone)
    /\ WF_vars(HandlerStep)
    /\ WF_vars(ErrorWatch)

\* One server call for a message type that declares the request type
\* itself as its update type.
InitSelfUpdate ==
    ServerInit /\ selfUpdate = TRUE /\ ClientIdle /\ creq = [c \in Calls |-> 1]
SpecSelfUpdate == InitSelfUpdate /\ [][ServerNext]_vars

\* The client calls; the server half stays idle.
InitClient ==
    ServerInit /\ selfUpdate = FALSE /\ ClientInit
SpecClient == InitClient /\ [][ClientNext]_vars

\* ---------------------------------------------------------------- properties
\* The wire responses handed to the sink are the handler's responses, each
\* converted, in the order produced, none missing.
SentAllProduced ==
    /\ Len(sendLog) = Len(produced)
    /\ \A i \in 1..Len(produced) :
           sendLog[i] = [tag |-> "Response", val |-> produced[i]]

\* The error-watch branch completed the race.
WatchWon == result.kind \in {"RecvError", "UnexpectedUpdateMessage"}

\* C1 as stated: once the call has returned and the transport accepted
\* every send, all N responses the handler yielded were sent by exactly N send
\* operations in the order produced, and the call returned Ok.
C1_Original ==
    (result # NoResult /\ acked = Len(sendLog))
        => (result.kind = "Ok" /\ SentAllProduced)

\* C1 amended: the same, unless the update-stream error-watch completed the
\* race first (the call then returns that error).
C1_Amended ==
    (result # NoResult /\ acked = Len(sendLog) /\ ~WatchWon)
        => (result.kind = "Ok" /\ handlerEnded /\ SentAllProduced)

\* Two different responses were yielded, both sends were accepted and the
\* call returned Ok.
C1_Witness ==
    /\ result.kind = "Ok"
    /\ Len(produced) = 2 /\ produced[1] # produced[2]
    /\ acked = 2

IsUpdateItem(x) == x.ok /\ x.tag = "Update"
\* A raw item the update stream cannot turn into a typed update.
IsBadMessage(x) == x.ok /\ x.tag # "Update"
ValsOf(seq) == [i \in 1..Len(seq) |-> seq[i].val]

\* C6: the typed updates the handler has seen are exactly the raw items that
\* carry an update, in order; a raw message of another type is never among
\* them, and once one was read the error signal has resolved.
C6_OnlyConvertedUpdates ==
    /\ updates = ValsOf(SelectSeq(recvLog, IsUpdateItem))
    /\ (\E i \in 1..Len(recvLog) : IsBadMessage(recvLog[i]))
           => read_error # NoResult

\* A message of another type was read, then a good update, which the
\* handler saw.
C6_Witness ==
    /\ Len(recvLog) = 2
    /\ IsBadMessage(recvLog[1]) /\ IsUpdateItem(recvLog[2])
    /\ updates = <<recvLog[2].val>>
    /\ read_error.kind = "UnexpectedUpdateMessage"

\* The signal the first failing raw item of log calls for, if any.
FirstFailure(log) ==
    IF \E i \in 1..Len(log) : ~IsUpdateItem(log[i])
    THEN LET i == CHOOSE j \in 1..Len(log) :
                      /\ ~IsUpdateItem(log[j])
                      /\ \A k \in 1..(j - 1) : IsUpdateItem(log[k])
         IN  IF log[i].ok THEN [kind |-> "UnexpectedUpdateMessage", err |-> 0]
                          ELSE [kind |-> "RecvError", err |-> log[i].val]
    ELSE [kind |-> "None", err |-> 0]

\* C7: the error signal resolves at most once, and its value is what the
\* first failing raw item calls for: RecvError(e) for a receive error e,
\* UnexpectedUpdateMessage for a message that does not convert, unresolved
\* when no raw item failed.
C7_SignalOnceAndKind ==
    /\ fired <= 1
    /\ (fired = 1) = (read_error # NoResult)
    /\ read_error = FirstFailure(recvLog)

\* Two failures of different kinds were read; the signal resolved once, with
\* the first.
C7_Witness ==
    /\ Len(recvLog) = 2
    /\ ~recvLog[1].ok /\ IsBadMessage(recvLog[2])
    /\ fired = 1
    /\ read_error = [kind |-> "RecvError", err |-> recvLog[1].val]

\* C8: when the raw update stream has ended with no receive error and no
\* conversion failure, the error signal is unresolved and the call, if it has
\* returned, returned the send loop's result: Ok with every produced response
\* sent, or the send error.
C8_CleanEndNeverFires ==
    (updEnded /\ \A i \in 1..Len(recvLog) : IsUpdateItem(recvLog[i]))
        => /\ read_error = NoResult
           /\ fired = 0
           /\ result # NoResult
                  => \/ result.kind = "Ok" /\ acked = Len(produced) /\ SentAllProduced
                     \/ result.kind = "SendError" /\ spc = "failed"

\* The update stream ended cleanly after one update and the loop is sending
\* a response after that end.
C8_Witness ==
    /\ updEnded /\ Len(recvLog) = 1 /\ IsUpdateItem(recvLog[1])
    /\ spc = "send" /\ result = NoResult
    /\ Len(sendLog) = 2

\* C4: a call whose open failed has handed nothing to the transport's send,
\* returned Error::Open with the transport's error, and has no sink and no
\* response sequence (nothing sent through one, nothing read through the other).
C4_OpenFailure ==
    \A c \in Calls :
        terr[c].kind = "open"
            => /\ cresult[c] = [kind |-> "Open", err |-> terr[c].err]
               /\ terr[c].err \in OpenErrors
               /\ out[c] = <<>>
               /\ ~hasSink[c] /\ updSent[c] = <<>>
               /\ cin[c] = <<>> /\ resp[c] = <<>> /\ ~cinEnded[c]

\* One call's open failed with the second error value while the other call
\* went on to send its request and an update.
C4_Witness ==
    /\ terr["a"] = [kind |-> "open", err |-> 12]
    /\ cresult["a"].kind = "Open"
    /\ Len(out["b"]) = 2

\* C5: a call whose request send failed returned Error::Send with the
\* transport's error; the request is the only value ever handed to the
\* substream, there is no sink and no response sequence.
C5_SendFailure ==
    \A c \in Calls :
        terr[c].kind = "send"
            => /\ cresult[c] = [kind |-> "Send", err |-> terr[c].err]
               /\ terr[c].err \in SendErrors
               /\ out[c] = <<[tag |-> "Request", val |-> creq[c]]>>
               /\ ~hasSink[c] /\ updSent[c] = <<>>
               /\ cin[c] = <<>> /\ resp[c] = <<>> /\ ~cinEnded[c]

\* One call's request send failed with the second error value while the
\* other call is reading responses.
C5_Witness ==
    /\ terr["b"] = [kind |-> "send", err |-> 22]
    /\ cresult["b"].kind = "Send"
    /\ Len(resp["a"]) = 1

\* C9: the response sequence has one element per raw item, in order: Ok(r)
\* for a response r, DowncastError for a message of another type,
\* RecvError(e) for a receive error e.
C9_ResponseMapping ==
    \A c \in Calls :
        /\ Len(resp[c]) = Len(cin[c])
        /\ \A i \in 1..Len(cin[c]) :
               LET x == cin[c][i]
               IN  /\ (x.ok /\ x.tag = "Response")
                          => resp[c][i] = [kind |-> "Ok", err |-> x.val]
                   /\ (x.ok /\ x.tag # "Response")
                          => resp[c][i] = [kind |-> "DowncastError", err |-> 0]
                   /\ ~x.ok
                          => resp[c][i] = [kind |-> "RecvError", err |-> x.val]

\* A call read a message of another type and then a receive error.
C9_Witness ==
    \E c \in Calls :
        /\ Len(cin[c]) = 2
        /\ cin[c][1].ok /\ cin[c][1].tag = "OtherRes"
        /\ ~cin[c][2].ok
        /\ resp[c][1].kind = "DowncastError" /\ resp[c][2].kind = "RecvError"

\* C10: what a substream has been handed is the request followed by the
\* updates pushed into the sink, each converted, in the order pushed, none
\* missing and none twice.
C10_UpdatesInOrder ==
    \A c \in Calls :
        hasSink[c]
            => out[c] = <<[tag |-> "Request", val |-> creq[c]]>>
                        \o [i \in 1..Len(updSent[c]) |->
                               [tag |-> "Update", val |-> updSent[c][i]]]

\* Two different updates were pushed into one call's sink.
C10_Witness ==
    \E c \in Calls :
        /\ Len(updSent[c]) = 2
        /\ updSent[c][1] # updSent[c][2]
        /\ Len(out[c]) = 3

\* C11: each call that opened holds one substream of its own: the connection
\* has opened one substream per such call, no two calls hold the same one,
\* and what a call's substream carries is exactly that call's traffic: out
\* that call's request and updates, in that call's raw responses.
C11_OwnSubstream ==
    /\ nextSub = Cardinality({c \in Calls : substream[c] # 0})
    /\ \A c \in Calls :
           /\ (cpc[c] = "start" \/ terr[c].kind = "open") <=> substream[c] = 0
           /\ substream[c] # 0
                  => /\ substream[c] \in Subs
                     /\ chan[substream[c]] = out[c]
                     /\ chanIn[substream[c]] = cin[c]
                     /\ \A i \in 1..Len(resp[c]) :
                            resp[c][i] = MapResponse(chanIn[substream[c]][i])
    /\ \A c, d \in Calls :
           (c # d /\ substream[c] # 0) => substream[c] # substream[d]
    /\ \A s \in Subs :
           (\A c \in Calls : substream[c] # s)
               => (chan[s] = <<>> /\ chanIn[s] = <<>>)

\* Both calls are in flight with different requests, each on its own
\* substream; one has sent an update, the other has read a response.
C11_Witness ==
    /\ creq["a"] # creq["b"]
    /\ substream["a"] # 0 /\ substream["b"] # 0
    /\ Len(chan[substream["a"]]) = 2
    /\ Len(chan[substream["b"]]) = 1
    /\ Len(chanIn[substream["b"]]) = 1

\* C13: a call whose request send succeeded returned Ok with an update sink
\* and a response sequence; if its transport closes the incoming half before
\* delivering anything, the sequence has ended with no element at all.
C13_EmptyOnImmediateClose ==
    \A c \in Calls :
        /\ cpc[c] = "ready"
               => /\ cresult[c] = [kind |-> "Ok", err |-> 0]
                  /\ hasSink[c]
                  /\ terr[c] = NoResult
        /\ (cinEnded[c] /\ cin[c] = <<>>)
               => (respEnded[c] /\ resp[c] = <<>>)

\* A call's transport closed the incoming half at once, after the call had
\* used its sink for an update.
C13_Witness ==
    \E c \in Calls :
        /\ cinEnded[c] /\ cin[c] = <<>> /\ respEnded[c]
        /\ Len(updSent[c]) = 1

\* C18: on each substream the request is the first value sent and is sent
\* once, everything after it is an update; an update has been pushed only
\* by a call whose request send succeeded, the sink existing only from then.
C18_RequestFirstOnce ==
    \A c \in Calls :
        /\ substream[c] # 0
               => LET log == chan[substream[c]]
                  IN  /\ cpc[c] \in {"ready", "failed"}
                             => (Len(log) >= 1
                                 /\ log[1] = [tag |-> "Request", val |-> creq[c]])
                      /\ cpc[c] = "opened" => log = <<>>
                      /\ \A i \in 2..Len(log) : log[i].tag = "Update"
        /\ hasSink[c] => (cpc[c] = "ready" /\ terr[c] = NoResult)
        /\ updSent[c] # <<>> => hasSink[c]

\* A substream carries the request followed by two updates.
C18_Witness ==
    \E c \in Calls :
        /\ substream[c] # 0
        /\ Len(chan[substream[c]]) = 3
        /\ chan[substream[c]][1].tag = "Request"

\* C19: the response sequence has ended only if the transport's incoming
\* stream has; an error element does not end it: every raw item read after
\* one is converted and yielded in its place.
C19_ErrorDoesNotEnd ==
    \A c \in Calls :
        /\ respEnded[c] <=> cinEnded[c]
        /\ Len(resp[c]) = Len(cin[c])
        /\ \A i \in 1..Len(cin[c]), j \in 1..Len(cin[c]) :
               (i < j /\ resp[c][i].kind \in {"DowncastError", "RecvError"})
                   => resp[c][j] =
                          IF ~cin[c][j].ok
                          THEN [kind |-> "RecvError", err |-> cin[c][j].val]
                          ELSE IF cin[c][j].tag = "Response"
                          THEN [kind |-> "Ok", err |-> cin[c][j].val]
                          ELSE [kind |-> "DowncastError", err |-> 0]

\* A receive error was yielded, then a response, and the sequence is still
\* open.
C19_Witness ==
    \E c \in Calls :
        /\ Len(resp[c]) = 2
        /\ resp[c][1].kind = "RecvError" /\ resp[c][2].kind = "Ok"
        /\ ~respEnded[c]

\* An update of the self-updating message type as the client's sink puts it
\* on the wire: update.into() of a value of the request type.
IsSelfUpdateItem(x) == x.ok /\ x.tag = "Request"

\* C12: for a message type that declares the request type as its update
\* type, an update the client sent is never delivered to the handler, and
\* once the server has read one the error signal has resolved with a
\* downcast failure.
C12_SelfUpdateAlwaysFails ==
    selfUpdate
        => /\ updates = <<>>
           /\ (\E i \in 1..Len(recvLog) : IsSelfUpdateItem(recvLog[i]))
                  => read_error # NoResult

\* C14: under fair scheduling a resolved error signal leads to the call
\* returning, also while the handler is suspended on the update sequence; and
\* every call returns unless its handler stays suspended for ever on an
\* update sequence that neither yields, fails nor ends.
C14_NoDeadlock ==
    /\ (read_error # NoResult) ~> (result # NoResult)
    /\ (<>(result # NoResult)) \/ (<>[](hwait /\ read_error = NoResult))

\* The update stream failed while the handler was suspended on it, and the
\* call returned that failure.
C14_Witness ==
    /\ hwait
    /\ read_error.kind = "RecvError"
    /\ result = read_error

\* C15: once a send has failed with error e the call has returned
\* SendError(e); the failed send is the last one attempted and its response
\* the last one taken from the handler's sequence, which was not polled to
\* its end.
C15_StopAtSendFailure ==
    sendErr # 0
        => /\ result = [kind |-> "SendError", err |-> sendErr]
           /\ spc = "failed"
           /\ Len(sendLog) = acked + 1
           /\ Len(produced) = Len(sendLog)
           /\ ~handlerEnded

\* The first send failed with the second error value while the handler could
\* have yielded more.
C15_Witness ==
    /\ sendErr = 22
    /\ Len(produced) = 1 /\ acked = 0
    /\ result.kind = "SendError"

C17_SentPrefixOfProduced ==
    /\ Len(sendLog) <= Len(produced)
    /\ \A i \in 1..Len(sendLog) :
           sendLog[i] = [tag |-> "Response", val |-> produced[i]]
    /\ acked <= Len(sendLog) /\ Len(sendLog) <= acked + 1
    /\ handlerCalls = (IF spc = "start" THEN 0 ELSE 1)

\* Two different responses were handed to the sink, the second still in
\* flight.
C17_Witness ==
    /\ Len(sendLog) = 2 /\ sendLog[1] # sendLog[2]
    /\ acked = 1 /\ spc = "send"
    /\ handlerCalls = 1
====
